---- MODULE Spec2Model ----
(***************************************************************************)
(* Model of src/pguuidv7.c: the SQL function uuidv7() and its two          *)
(* backend-local statics, previous_timestamp (uint64) and sequence_counter *)
(* (uint32).                                                               *)
(*                                                                         *)
(* Number representation.  TLC's integers are 32 bits wide, so a uint64 is *)
(* a sequence of 8 bytes, most significant first (x[1] has weight 2^56,    *)
(* x[8] weight 2^0); order is lexicographic order and arithmetic carries   *)
(* byte by byte and drops the carry out of x[1] (arithmetic mod 2^64).     *)
(* An identifier is the array data[0..15] of the code, a function from     *)
(* 0..15 to bytes.  sequence_counter never exceeds 0x3ffff + 1 inside a    *)
(* call, far from 2^32, so it is a plain integer.                          *)
(***************************************************************************)
EXTENDS Integers, Sequences, FiniteSets

VARIABLES
    previous_timestamp,   \* static uint64 previous_timestamp
    sequence_counter,     \* static uint32 sequence_counter
    last,                 \* the identifier returned most recently, or NoUuid
    outcome,              \* "none" before any call, else "ok" or "error"
    branch,               \* "none", "advance" or "increment": branch of the latest call
    now,                  \* tms as computed from the clock by the latest call
    old_timestamp,        \* previous_timestamp when the latest call started
    old_counter,          \* sequence_counter when the latest call started
    prev,                 \* value of last when the latest call started
    errors_between,       \* failed calls between the return of prev and the latest call
    errors_since,         \* failed calls since the latest returned identifier
    calls,                \* number of calls made so far
    ret,                  \* what the latest call returned: an identifier, or NoUuid
    entropy,              \* what pg_strong_random() answered in the latest call
    requests,             \* the pg_strong_random() calls of the latest call, in order
    pack,                 \* a counter value on its way through write, fix-up and read
    pc,                   \* per execution context: the statement it is at
    loc,                  \* per execution context: its locals tms and uuid->data
    out,                  \* identifiers returned by the execution contexts, in order
    overlap               \* whether a call started while another was under way

vars == <<previous_timestamp, sequence_counter, last, outcome, branch, now,
          old_timestamp, old_counter, prev, errors_between, errors_since, calls,
          ret, entropy, requests, pack, pc, loc, out, overlap>>

\* ------------------------------------------------------------ bounds

\* Calls explored from each starting state.
MaxCalls == 2

\* ------------------------------------------------------------ bytes and words

UUID_LEN == 16

RECURSIVE BitAnd(_, _)
\* C's & on non-negative integers.
BitAnd(x, y) ==
    IF x = 0 \/ y = 0 THEN 0
    ELSE (x % 2) * (y % 2) + 2 * BitAnd(x \div 2, y \div 2)

RECURSIVE BitOr(_, _)
\* C's | on non-negative integers.
BitOr(x, y) ==
    IF x = 0 THEN y
    ELSE IF y = 0 THEN x
    ELSE (IF x % 2 = 1 \/ y % 2 = 1 THEN 1 ELSE 0) + 2 * BitOr(x \div 2, y \div 2)

\* (unsigned char) x
UChar(x) == x % 256

\* uint64 comparison a > b.
Gt64(a, b) == \E i \in 1..8 : a[i] > b[i] /\ \A j \in 1..(i - 1) : a[j] = b[j]

RECURSIVE IncAt(_, _)
IncAt(a, i) ==
    IF i = 0 THEN a
    ELSE IF a[i] = 255 THEN IncAt([a EXCEPT ![i] = 0], i - 1)
    ELSE [a EXCEPT ![i] = a[i] + 1]

\* uint64 x + 1 (mod 2^64).
Inc64(a) == IncAt(a, 8)

RECURSIVE MulAddAt(_, _, _, _)
MulAddAt(a, m, carry, i) ==
    IF i = 0 THEN a
    ELSE LET v == a[i] * m + carry
         IN  MulAddAt([a EXCEPT ![i] = v % 256], m, v \div 256, i - 1)

\* uint64 a * m + c (mod 2^64), for small m and c.
MulAdd64(a, m, c) == MulAddAt(a, m, c, 8)

\* (unsigned char) (x >> shift) of a uint64 x, shift a multiple of 8.
ShiftByte64(x, shift) == x[8 - (shift \div 8)]

Zero64 == <<0, 0, 0, 0, 0, 0, 0, 0>>

\* ------------------------------------------------------------ inputs

\* struct timeval as filled by gettimeofday(): tv_sec already cast to uint64.
\* The readings give tms = 0, 1000, 1001, 2^48 - 1 and 2^48.
ClockReadings ==
    { [tv_sec |-> Zero64, tv_usec |-> 999],
      [tv_sec |-> <<0, 0, 0, 0, 0, 0, 0, 1>>, tv_usec |-> 0],
      [tv_sec |-> <<0, 0, 0, 0, 0, 0, 0, 1>>, tv_usec |-> 1999],
      [tv_sec |-> <<0, 0, 0, 65, 137, 55, 75, 198>>, tv_usec |-> 655999],
      [tv_sec |-> <<0, 0, 0, 65, 137, 55, 75, 198>>, tv_usec |-> 656000] }

\* Bytes a successful pg_strong_random() call may deliver (the first len of them).
RandomHeads == { <<0, 0, 0>>, <<255, 255, 255>>, <<168, 1, 127>> }

RandomTails == { <<0, 0, 0, 0, 0, 0, 0>>, <<255, 255, 255, 255, 255, 255, 255>> }

RandomBytes == { h \o t : h \in RandomHeads, t \in RandomTails }

\* Outcomes of one pg_strong_random() call: failure, or success with bytes.
RandomResults ==
    { [ok |-> FALSE, bytes |-> <<>>] } \cup { [ok |-> TRUE, bytes |-> b] : b \in RandomBytes }

\* What palloc() may hand out: the memory is not initialized.
Junk == { [i \in 0..(UUID_LEN - 1) |-> 0], [i \in 0..(UUID_LEN - 1) |-> 255] }

NoUuid == <<>>

\* ------------------------------------------------------------ uuidv7()

\* tms = ((uint64) tp.tv_sec) * 1000 + (tp.tv_usec) / 1000
ClockMs(tp) == MulAdd64(tp.tv_sec, 1000, tp.tv_usec \div 1000)

time_tick_forward_ge(tms, pts) == Gt64(tms, pts) \/ tms = pts

time_tick_forward_ne(tms, pts) == tms # pts

\* time_tick_forward = (tms > previous_timestamp)
time_tick_forward(tms, pts) == Gt64(tms, pts)

\* The arguments of pg_strong_random(&uuid->data[from], UUID_LEN - from).
RandomRequest(from) == [from |-> from, len |-> UUID_LEN - from]

\* pg_strong_random(&data[from], UUID_LEN - from) succeeding with the given bytes.
StrongRandom(data, from, bytes) ==
    [i \in 0..(UUID_LEN - 1) |-> IF i >= from THEN bytes[i - from + 1] ELSE data[i]]

SeedCounterMsb_keep(b) == b

\* data[6] & 0xf7: the left-most counter bit starts as zero.
SeedCounterMsb(b) == BitAnd(b, 247)

ReadCounter_shift(data) ==
    BitAnd(data[8], 63) + data[7] * 256 + BitAnd(data[6], 15) * 16384

\* read randomly initialized bits of counter
ReadCounter(data) ==
    BitAnd(data[8], 63) + data[7] * 64 + BitAnd(data[6], 15) * 16384

NextCounter_no_tick(pts, sc) ==
    IF sc + 1 > 262143
    THEN [sequence_counter |-> 0, previous_timestamp |-> pts]
    ELSE [sequence_counter |-> sc + 1, previous_timestamp |-> pts]

NextCounter_late(pts, sc) ==
    IF sc + 1 > 262144
    THEN [sequence_counter |-> 0, previous_timestamp |-> Inc64(pts)]
    ELSE [sequence_counter |-> sc + 1, previous_timestamp |-> pts]

\* ++sequence_counter, and on overflow of the 18 bits: counter 0, previous_timestamp++
NextCounter(pts, sc) ==
    IF sc + 1 > 262143
    THEN [sequence_counter |-> 0, previous_timestamp |-> Inc64(pts)]
    ELSE [sequence_counter |-> sc + 1, previous_timestamp |-> pts]

ProtectedTms_clock(tms, pts) == tms

\* protection from leap backward: tms = previous_timestamp
ProtectedTms(tms, pts) == pts

WriteCounter_shift(data, sc) ==
    [data EXCEPT ![6] = UChar(sc \div 4096),
                 ![7] = UChar(sc \div 64),
                 ![8] = UChar(sc)]

\* the 18-bit counter into data[6], data[7], data[8]
WriteCounter(data, sc) ==
    [data EXCEPT ![6] = UChar(sc \div 16384),
                 ![7] = UChar(sc \div 64),
                 ![8] = UChar(sc)]

FillTime_shift(data, tms) ==
    [data EXCEPT ![0] = ShiftByte64(tms, 48),
                 ![1] = ShiftByte64(tms, 40),
                 ![2] = ShiftByte64(tms, 32),
                 ![3] = ShiftByte64(tms, 24),
                 ![4] = ShiftByte64(tms, 16),
                 ![5] = ShiftByte64(tms, 8)]

\* Fill in time part
FillTime(data, tms) ==
    [data EXCEPT ![0] = ShiftByte64(tms, 40),
                 ![1] = ShiftByte64(tms, 32),
                 ![2] = ShiftByte64(tms, 24),
                 ![3] = ShiftByte64(tms, 16),
                 ![4] = ShiftByte64(tms, 8),
                 ![5] = ShiftByte64(tms, 0)]

SetVersion_or(b) == BitOr(b, 112)

\* set version field, top four bits are 0, 1, 1, 1
SetVersion(b) == BitOr(BitAnd(b, 15), 112)

SetVariant_or(b) == BitOr(b, 128)

\* set variant field, top two bits are 1, 0
SetVariant(b) == BitOr(BitAnd(b, 63), 128)

\* uuid->data[6] = (uuid->data[6] & 0x0f) | 0x70
TagVersion(data) == [data EXCEPT ![6] = SetVersion(data[6])]

\* uuid->data[8] = (uuid->data[8] & 0x3f) | 0x80
TagVariant(data) == [data EXCEPT ![8] = SetVariant(data[8])]

\* The common tail of both branches: time part, version, variant.
Finish(data, tms) == TagVariant(TagVersion(FillTime(data, tms)))

\* uuid->data[6] = (uuid->data[6] & 0xf7)
SeedCounter(data) == [data EXCEPT ![6] = SeedCounterMsb(data[6])]

\* sequence_counter is read back from the seeded bytes; previous_timestamp = tms.
AdvanceCommit(data, tms) ==
    [ok |-> TRUE, data |-> data, tms |-> tms,
     requests |-> <<RandomRequest(6)>>,
     previous_timestamp |-> tms, sequence_counter |-> ReadCounter(data)]

AdvanceBranch_early(pts, sc, data, tms, rnd) ==
    IF ~rnd.ok
    THEN [ok |-> FALSE, data |-> NoUuid, tms |-> tms,
          requests |-> <<RandomRequest(6)>>,
          previous_timestamp |-> tms, sequence_counter |-> sc]
    ELSE AdvanceCommit(SeedCounter(StrongRandom(data, 6, rnd.bytes)), tms)

\* The branch taken when the clock moved forward.  ereport(ERROR) leaves the
\* function before either static is assigned.
AdvanceBranch(pts, sc, data, tms, rnd) ==
    IF ~rnd.ok
    THEN [ok |-> FALSE, data |-> NoUuid, tms |-> tms,
          requests |-> <<RandomRequest(6)>>,
          previous_timestamp |-> pts, sequence_counter |-> sc]
    ELSE AdvanceCommit(SeedCounter(StrongRandom(data, 6, rnd.bytes)), tms)

IncrementFill_wide(n, data, tms, rnd) ==
    [ok |-> rnd.ok,
     data |-> IF rnd.ok
              THEN WriteCounter(StrongRandom(data, 6, rnd.bytes), n.sequence_counter)
              ELSE NoUuid,
     tms |-> ProtectedTms(tms, n.previous_timestamp),
     requests |-> <<RandomRequest(6)>>,
     previous_timestamp |-> n.previous_timestamp,
     sequence_counter |-> n.sequence_counter]

\* The increment branch after the statics were assigned (n): tms, the random
\* fill of data[9..15], then the counter bytes.  ereport(ERROR) leaves the
\* function with the statics already assigned.
IncrementFill(n, data, tms, rnd) ==
    [ok |-> rnd.ok,
     data |-> IF rnd.ok
              THEN WriteCounter(StrongRandom(data, 9, rnd.bytes), n.sequence_counter)
              ELSE NoUuid,
     tms |-> ProtectedTms(tms, n.previous_timestamp),
     requests |-> <<RandomRequest(9)>>,
     previous_timestamp |-> n.previous_timestamp,
     sequence_counter |-> n.sequence_counter]

\* The branch taken when the clock did not move forward.
IncrementBranch(pts, sc, data, tms, rnd) ==
    IncrementFill(NextCounter(pts, sc), data, tms, rnd)

\* What a call leaves behind: the returned identifier (none after an error)
\* and the statics.  b is the branch's result, now the clock's tms.
Return(taken, clock, b) ==
    [ok |-> b.ok,
     branch |-> taken,
     now |-> clock,
     data |-> IF b.ok THEN Finish(b.data, b.tms) ELSE NoUuid,
     tms |-> b.tms,
     requests |-> b.requests,
     previous_timestamp |-> b.previous_timestamp,
     sequence_counter |-> b.sequence_counter]

\* The body of uuidv7() once tms is computed from the clock.
Body(pts, sc, tms, junk, rnd) ==
    IF time_tick_forward(tms, pts)
    THEN Return("advance", tms, AdvanceBranch(pts, sc, junk, tms, rnd))
    ELSE Return("increment", tms, IncrementBranch(pts, sc, junk, tms, rnd))

\* One call of uuidv7() from statics (pts, sc): clock reading tp, palloc'ed
\* memory junk, pg_strong_random() outcome rnd.
uuidv7(pts, sc, tp, junk, rnd) == Body(pts, sc, ClockMs(tp), junk, rnd)

\* ------------------------------------------------------------ state machine

\* Execution contexts that may call the function on the same statics.
Procs == {"a", "b"}

NoLocals == [tms |-> Zero64, data |-> NoUuid]

shared_vars == <<pc, loc, out, overlap>>

\* Statics a backend can hold after a successful call: a timestamp taken from
\* the clock (1000, or 2^48 - 1) and a counter reached from its seed by
\* same-millisecond calls.
StartTimestamps == { <<0, 0, 0, 0, 0, 0, 3, 232>>, <<0, 0, 255, 255, 255, 255, 255, 255>> }

StartCounters == { 5, 131071, 262142, 262143 }

\* The identifier a successful call returns when it leaves the statics at
\* (pts, sc) and the trailing random bytes are tail.
IdentifierOf(pts, sc, tail) ==
    Finish(WriteCounter(StrongRandom([i \in 0..(UUID_LEN - 1) |-> 0], 9, tail), sc), pts)

\* A fresh backend (both statics zero, nothing returned yet), or a backend
\* observed right after a successful call.
Init ==
    /\ \/ /\ previous_timestamp = Zero64
          /\ sequence_counter = 0
          /\ last = NoUuid
       \/ \E pts \in StartTimestamps, sc \in StartCounters :
             /\ previous_timestamp = pts
             /\ sequence_counter = sc
             /\ last = IdentifierOf(pts, sc, <<255, 255, 255, 255, 255, 255, 255>>)
    /\ outcome = "none"
    /\ branch = "none"
    /\ now = Zero64
    /\ old_timestamp = previous_timestamp
    /\ old_counter = sequence_counter
    /\ prev = NoUuid
    /\ errors_between = 0
    /\ errors_since = 0
    /\ calls = 0
    /\ ret = NoUuid
    /\ entropy = [ok |-> FALSE, bytes |-> <<>>]
    /\ requests = <<>>
    /\ pack = [stage |-> "idle"]
    /\ pc = [p \in Procs |-> "idle"]
    /\ loc = [p \in Procs |-> NoLocals]
    /\ out = <<>>
    /\ overlap = FALSE

\* The effect of a call with result r on the statics and on the record of the run.
Commit(r, rnd) ==
    /\ calls' = calls + 1
    /\ previous_timestamp' = r.previous_timestamp
    /\ sequence_counter' = r.sequence_counter
    /\ outcome' = IF r.ok THEN "ok" ELSE "error"
    /\ branch' = r.branch
    /\ now' = r.now
    /\ old_timestamp' = previous_timestamp
    /\ old_counter' = sequence_counter
    /\ prev' = last
    /\ last' = IF r.ok THEN r.data ELSE last
    /\ errors_between' = errors_since
    /\ errors_since' = IF r.ok THEN 0 ELSE errors_since + 1
    /\ ret' = r.data
    /\ entropy' = rnd
    /\ requests' = r.requests

\* One call of the SQL function.
Generate(tp, junk, rnd) ==
    /\ calls < MaxCalls
    /\ Commit(uuidv7(previous_timestamp, sequence_counter, tp, junk, rnd), rnd)
    /\ pack' = pack
    /\ UNCHANGED shared_vars

Next == \E tp \in ClockReadings, junk \in Junk, rnd \in RandomResults : Generate(tp, junk, rnd)

Spec == Init /\ [][Next]_vars

\* ------------------------------------------------------------ counter packing

\* The statics and the record of the run, without pack.
call_vars == <<previous_timestamp, sequence_counter, last, outcome, branch, now,
               old_timestamp, old_counter, prev, errors_between, errors_since, calls,
               ret, entropy, requests>>

\* Every value of the 18-bit counter.
CounterValues == 0..262143

\* A counter value c as the increment branch writes it (written), as the
\* identifier carries it after the version and variant fix-up (fixed), and as
\* the advance branch's expression reads it from either.
Packed(c, written, fixed) ==
    [stage |-> "done", c |-> c, written |-> written, fixed |-> fixed,
     read_written |-> ReadCounter(written), read_fixed |-> ReadCounter(fixed)]

\* The written bytes go through the common tail of the function.
FixUp(c, written, tms) == Packed(c, written, Finish(written, tms))

\* Lines 125-129 then 145-147 applied to pack.c, over memory junk with random
\* bytes tail and time part tms; lines 95-97 applied to the results.
PackRoundTrip(junk, tail, tms) ==
    /\ pack.stage = "input"
    /\ pack' = FixUp(pack.c, WriteCounter(StrongRandom(junk, 9, tail), pack.c), tms)
    /\ UNCHANGED call_vars
    /\ UNCHANGED shared_vars

PackInit ==
    /\ \E c \in CounterValues : pack = [stage |-> "input", c |-> c]
    /\ previous_timestamp = Zero64
    /\ sequence_counter = 0
    /\ last = NoUuid
    /\ outcome = "none"
    /\ branch = "none"
    /\ now = Zero64
    /\ old_timestamp = Zero64
    /\ old_counter = 0
    /\ prev = NoUuid
    /\ errors_between = 0
    /\ errors_since = 0
    /\ calls = 0
    /\ ret = NoUuid
    /\ entropy = [ok |-> FALSE, bytes |-> <<>>]
    /\ requests = <<>>
    /\ pc = [p \in Procs |-> "idle"]
    /\ loc = [p \in Procs |-> NoLocals]
    /\ out = <<>>
    /\ overlap = FALSE

PackNext ==
    \E junk \in Junk :
        PackRoundTrip(junk, <<255, 255, 255, 255, 255, 255, 255>>, Zero64)

\* The counter layout taken alone, for every counter value.
SpecPack == PackInit /\ [][PackNext]_vars

\* ------------------------------------------------------------ shared statics

\* Two execution contexts run uuidv7() once each on the same statics, one
\* statement (or group of statements on locals) at a time and with no lock.
\* An execution context is inside a call from its clock read to its return.
Inside(p) == pc[p] \notin {"start", "done"}

\* gettimeofday(&tp, NULL); tms = ...
SharedClock(p, tp) ==
    /\ pc[p] = "start"
    /\ loc' = [loc EXCEPT ![p].tms = ClockMs(tp)]
    /\ pc' = [pc EXCEPT ![p] = "tick"]
    /\ overlap' = (overlap \/ \E q \in Procs \ {p} : Inside(q))
    /\ UNCHANGED <<previous_timestamp, sequence_counter, out>>

\* time_tick_forward = (tms > previous_timestamp); if (time_tick_forward)
SharedTick(p) ==
    /\ pc[p] = "tick"
    /\ pc' = [pc EXCEPT ![p] = IF time_tick_forward(loc[p].tms, previous_timestamp)
                                THEN "adv_random" ELSE "inc"]
    /\ UNCHANGED <<previous_timestamp, sequence_counter, loc, out, overlap>>

\* pg_strong_random(&uuid->data[6], ...), then data[6] & 0xf7; or ereport(ERROR)
SharedAdvRandom(p, junk, rnd) ==
    /\ pc[p] = "adv_random"
    /\ IF rnd.ok
       THEN /\ loc' = [loc EXCEPT ![p].data = SeedCounter(StrongRandom(junk, 6, rnd.bytes))]
            /\ pc' = [pc EXCEPT ![p] = "adv_counter"]
       ELSE /\ loc' = loc
            /\ pc' = [pc EXCEPT ![p] = "done"]
    /\ UNCHANGED <<previous_timestamp, sequence_counter, out, overlap>>

\* sequence_counter = ... (read from the seeded bytes)
SharedAdvCounter(p) ==
    /\ pc[p] = "adv_counter"
    /\ sequence_counter' = ReadCounter(loc[p].data)
    /\ pc' = [pc EXCEPT ![p] = "adv_ts"]
    /\ UNCHANGED <<previous_timestamp, loc, out, overlap>>

\* previous_timestamp = tms
SharedAdvTimestamp(p) ==
    /\ pc[p] = "adv_ts"
    /\ previous_timestamp' = loc[p].tms
    /\ pc' = [pc EXCEPT ![p] = "finish"]
    /\ UNCHANGED <<sequence_counter, loc, out, overlap>>

\* The counter and timestamp after ++sequence_counter and the overflow test.
SharedStore(p, n) ==
    /\ sequence_counter' = n.sequence_counter
    /\ previous_timestamp' = n.previous_timestamp
    /\ pc' = [pc EXCEPT ![p] = "inc_tms"]
    /\ UNCHANGED <<loc, out, overlap>>

\* ++sequence_counter; if (sequence_counter > 0x3ffff) { ... }
SharedIncrement(p) ==
    /\ pc[p] = "inc"
    /\ SharedStore(p, NextCounter(previous_timestamp, sequence_counter))

\* tms = previous_timestamp
SharedIncTms(p) ==
    /\ pc[p] = "inc_tms"
    /\ loc' = [loc EXCEPT ![p].tms = ProtectedTms(loc[p].tms, previous_timestamp)]
    /\ pc' = [pc EXCEPT ![p] = "inc_random"]
    /\ UNCHANGED <<previous_timestamp, sequence_counter, out, overlap>>

\* pg_strong_random(&uuid->data[9], ...); or ereport(ERROR)
SharedIncRandom(p, junk, rnd) ==
    /\ pc[p] = "inc_random"
    /\ IF rnd.ok
       THEN /\ loc' = [loc EXCEPT ![p].data = StrongRandom(junk, 9, rnd.bytes)]
            /\ pc' = [pc EXCEPT ![p] = "inc_write"]
       ELSE /\ loc' = loc
            /\ pc' = [pc EXCEPT ![p] = "done"]
    /\ UNCHANGED <<previous_timestamp, sequence_counter, out, overlap>>

\* uuid->data[6], [7], [8] = the bytes of sequence_counter, read from the static
SharedIncWrite(p) ==
    /\ pc[p] = "inc_write"
    /\ loc' = [loc EXCEPT ![p].data = WriteCounter(loc[p].data, sequence_counter)]
    /\ pc' = [pc EXCEPT ![p] = "finish"]
    /\ UNCHANGED <<previous_timestamp, sequence_counter, out, overlap>>

\* time part, version, variant; PG_RETURN_UUID_P
SharedReturn(p) ==
    /\ pc[p] = "finish"
    /\ out' = Append(out, Finish(loc[p].data, loc[p].tms))
    /\ pc' = [pc EXCEPT ![p] = "done"]
    /\ UNCHANGED <<previous_timestamp, sequence_counter, loc, overlap>>

SharedInit ==
    /\ \/ previous_timestamp = Zero64 /\ sequence_counter = 0
       \/ previous_timestamp \in StartTimestamps /\ sequence_counter \in StartCounters
    /\ last = NoUuid
    /\ outcome = "none"
    /\ branch = "none"
    /\ now = Zero64
    /\ old_timestamp = Zero64
    /\ old_counter = 0
    /\ prev = NoUuid
    /\ errors_between = 0
    /\ errors_since = 0
    /\ calls = 0
    /\ ret = NoUuid
    /\ entropy = [ok |-> FALSE, bytes |-> <<>>]
    /\ requests = <<>>
    /\ pack = [stage |-> "idle"]
    /\ pc = [p \in Procs |-> "start"]
    /\ loc = [p \in Procs |-> NoLocals]
    /\ out = <<>>
    /\ overlap = FALSE

\* What a step of an execution context leaves alone.
SharedFrame ==
    UNCHANGED <<last, outcome, branch, now, old_timestamp, old_counter, prev,
                errors_between, errors_since, calls, ret, entropy, requests, pack>>

SharedStep(p) ==
    \/ \E tp \in ClockReadings : SharedClock(p, tp)
    \/ SharedTick(p)
    \/ \E junk \in Junk, rnd \in RandomResults : SharedAdvRandom(p, junk, rnd)
    \/ SharedAdvCounter(p)
    \/ SharedAdvTimestamp(p)
    \/ SharedIncrement(p)
    \/ SharedIncTms(p)
    \/ \E junk \in Junk, rnd \in RandomResults : SharedIncRandom(p, junk, rnd)
    \/ SharedIncWrite(p)
    \/ SharedReturn(p)

SharedNext == \E p \in Procs : SharedStep(p) /\ SharedFrame

SpecShared == SharedInit /\ [][SharedNext]_vars

\* ------------------------------------------------------------ reading identifiers

\* a < b as 128-bit big-endian unsigned integers.
Lt128(a, b) == \E i \in 0..(UUID_LEN - 1) : a[i] < b[i] /\ \A j \in 0..(i - 1) : a[j] = b[j]

\* The 48-bit timestamp field of an identifier, most significant byte first.
TimeField(id) == <<id[0], id[1], id[2], id[3], id[4], id[5]>>

\* The 18-bit counter field: low nibble of byte 6, byte 7, low 6 bits of byte 8.
CounterField(id) == (id[6] % 16) * 16384 + id[7] * 64 + (id[8] % 64)

\* a < b for two timestamp fields.
LtField(a, b) == \E i \in 1..6 : a[i] < b[i] /\ \A j \in 1..(i - 1) : a[j] = b[j]

\* The low 48 bits of a uint64, and whether it has no others.
Low48(x) == <<x[3], x[4], x[5], x[6], x[7], x[8]>>

Below48(x) == x[1] = 0 /\ x[2] = 0

\* The latest call returned an identifier / took the increment branch and did.
Returned == outcome = "ok"

NotForward == branch = "increment"

\* ------------------------------------------------------------ claims

C2_FailureAtomic ==
    outcome = "error" =>
        (previous_timestamp = old_timestamp /\ sequence_counter = old_counter)

\* The timestamp the increment branch is to encode: the stored one, or the
\* stored one plus 1 when the counter overflows in that call.
C3_Expected == IF old_counter = 262143 THEN Inc64(old_timestamp) ELSE old_timestamp

C4_CounterContinuity ==
    (Returned /\ prev # NoUuid /\ TimeField(prev) = TimeField(last)) =>
        CounterField(last) = (CounterField(prev) + 1) % 262144

\* C5: a successful call made with sequence_counter = 262143 and a clock
\* reading not greater than previous_timestamp returns counter 0 and the old
\* previous_timestamp + 1 in the timestamp field, and leaves sequence_counter = 0
\* and previous_timestamp incremented by exactly 1.
C5_CounterOverflow ==
    (Returned /\ ~Gt64(now, old_timestamp) /\ old_counter = 262143) =>
        /\ CounterField(last) = 0
        /\ TimeField(last) = Low48(Inc64(old_timestamp))
        /\ sequence_counter = 0
        /\ previous_timestamp = Inc64(old_timestamp)
        /\ previous_timestamp # old_timestamp

\* C5 witness: the overflow happened under a clock reading earlier than the
\* stored timestamp.
C5_Witness ==
    /\ Returned /\ old_counter = 262143 /\ Gt64(old_timestamp, now)
    /\ sequence_counter = 0 /\ CounterField(last) = 0

\* C6: a successful call made with a clock reading not greater than
\* previous_timestamp and sequence_counter = c < 262143 returns timestamp
\* previous_timestamp and counter c + 1, sets sequence_counter to c + 1 and
\* leaves previous_timestamp unchanged.
C6_SameTickIncrement ==
    (Returned /\ ~Gt64(now, old_timestamp) /\ old_counter < 262143) =>
        /\ TimeField(last) = Low48(old_timestamp)
        /\ CounterField(last) = old_counter + 1
        /\ sequence_counter = old_counter + 1
        /\ previous_timestamp = old_timestamp

\* C6 witness: Scenario A, previous_timestamp = 1000, sequence_counter = 5,
\* clock 1000, gives timestamp 1000 and counter 6.
C6_Witness ==
    /\ Returned /\ old_timestamp = <<0, 0, 0, 0, 0, 0, 3, 232>> /\ old_counter = 5
    /\ now = old_timestamp
    /\ TimeField(last) = <<0, 0, 0, 0, 3, 232>> /\ CounterField(last) = 6

\* C7: every returned identifier has the high nibble of byte 6 equal to 0111
\* and the top two bits of byte 8 equal to 10.
C7_VersionVariant ==
    Returned => (last[6] \div 16 = 7 /\ last[8] \div 64 = 2)

\* C7 witness: an identifier whose bytes 6 to 8 came from random bytes 0xff.
C7_Witness ==
    /\ Returned /\ branch = "advance" /\ sequence_counter = 131071
    /\ last[6] = 119 /\ last[8] = 191

\* C8: between calls, sequence_counter is within [0, 262143].
C8_CounterRange == sequence_counter \in 0..262143

\* C8 witness: a call, failed or not, that overflowed the counter.
C8_Witness ==
    /\ NotForward /\ old_counter = 262143 /\ sequence_counter = 0

\* C9: after every successful call whose clock reading is greater than
\* previous_timestamp, sequence_counter <= 131071, so even the 131072nd
\* same-timestamp call that follows (which starts from sequence_counter +
\* 131071) increments the counter without advancing previous_timestamp.
C9_SeedTopBitZero ==
    (Returned /\ branch = "advance") =>
        /\ sequence_counter <= 131071
        /\ NextCounter(previous_timestamp, sequence_counter + 131071)
              = [sequence_counter |-> sequence_counter + 131072,
                 previous_timestamp |-> previous_timestamp]

\* C9 witness: a seed whose random byte 6 had the top counter bit set.
C9_Witness ==
    /\ Returned /\ branch = "advance" /\ sequence_counter = 131071

\* Two results of a call agree where random bytes must have no say: the
\* timestamp bytes, the version nibble and the variant bits, and on a
\* counter-increment call bytes 0 to 8 and the statics left behind.
C10_Agree(a, b) ==
    /\ TimeField(a.data) = TimeField(b.data)
    /\ a.data[6] \div 16 = b.data[6] \div 16
    /\ a.data[8] \div 64 = b.data[8] \div 64
    /\ a.branch = "increment" =>
          /\ \A i \in 0..8 : a.data[i] = b.data[i]
          /\ a.previous_timestamp = b.previous_timestamp
          /\ a.sequence_counter = b.sequence_counter

\* Every choice of random bytes gives a result that agrees with ref.
C10_AllAgree(ref, tp, junk) ==
    \A b \in RandomBytes :
        C10_Agree(uuidv7(previous_timestamp, sequence_counter, tp, junk,
                         [ok |-> TRUE, bytes |-> b]), ref)

\* C10: calls started from the same state with the same clock reading but
\* different random bytes return identifiers that agree on bytes 0-5, the
\* version nibble and the variant bits, and when the clock reading is not
\* greater than previous_timestamp agree on bytes 0-8 and leave identical
\* states.  (Every result is compared with the result for one fixed choice of
\* random bytes; agreement is transitive.)
C10_EntropyScope ==
    \A tp \in ClockReadings, junk \in Junk :
        C10_AllAgree(uuidv7(previous_timestamp, sequence_counter, tp, junk,
                            [ok |-> TRUE, bytes |-> <<0, 0, 0, 0, 0, 0, 0, 0, 0, 0>>]),
                     tp, junk)

\* C10 witness: a state, left by an increment-branch call, from which both
\* branches can be taken.
C10_Witness ==
    /\ Returned /\ NotForward
    /\ \E tp \in ClockReadings : time_tick_forward(ClockMs(tp), previous_timestamp)
    /\ \E tp \in ClockReadings : ~time_tick_forward(ClockMs(tp), previous_timestamp)

\* C11: a successful call whose clock reading is strictly greater than
\* previous_timestamp sets previous_timestamp to the reading, returns it in the
\* timestamp field, and sets sequence_counter to the counter the identifier
\* carries, which is the random bytes 6-8 with the top counter bit cleared; a
\* reading equal to previous_timestamp does not take this branch.
C11_AdvanceCommit ==
    /\ (Returned /\ Gt64(now, old_timestamp)) =>
          /\ branch = "advance"
          /\ previous_timestamp = now
          /\ TimeField(last) = Low48(now)
          /\ sequence_counter = CounterField(last)
          /\ sequence_counter = (entropy.bytes[1] % 8) * 16384
                                + entropy.bytes[2] * 64 + (entropy.bytes[3] % 64)
    /\ (outcome # "none" /\ now = old_timestamp) => branch = "increment"

\* C11 witness: an advance from 1000 to 1001 whose random byte 6 had the top
\* counter bit set.
C11_Witness ==
    /\ Returned /\ branch = "advance"
    /\ old_timestamp = <<0, 0, 0, 0, 0, 0, 3, 232>>
    /\ now = <<0, 0, 0, 0, 0, 0, 3, 233>>
    /\ entropy.bytes[1] = 168 /\ sequence_counter = 127

\* C12: when the clock reading is greater than previous_timestamp and the
\* request for the random bytes fails, the call ends with the error, returns
\* no identifier and leaves previous_timestamp and sequence_counter untouched.
C12_AdvanceFailure ==
    (outcome # "none" /\ Gt64(now, old_timestamp) /\ ~entropy.ok) =>
        /\ outcome = "error"
        /\ ret = NoUuid
        /\ last = prev
        /\ previous_timestamp = old_timestamp
        /\ sequence_counter = old_counter

\* C12 witness: a failed call under a clock reading ahead of the stored
\* timestamp, after which the old timestamp is still stored.
C12_Witness ==
    /\ outcome = "error" /\ branch = "advance"
    /\ Gt64(now, previous_timestamp)
    /\ previous_timestamp = <<0, 0, 0, 0, 0, 0, 3, 232>>

\* C13: for every counter c in [0, 262143], writing c into bytes 6-8, applying
\* the version and variant fix-up and reading the counter back with the
\* advance branch's layout yields c, and the fix-up changes no counter bit.
C13_PackRoundTrip ==
    pack.stage = "done" =>
        /\ pack.read_fixed = pack.c
        /\ pack.read_written = pack.c
        /\ CounterField(pack.fixed) = pack.c
        /\ pack.fixed[6] % 16 = pack.written[6] % 16
        /\ pack.fixed[7] = pack.written[7]
        /\ pack.fixed[8] % 64 = pack.written[8] % 64

\* C13 witness: the largest counter, all 18 bits set, came back unchanged.
C13_Witness ==
    /\ pack.stage = "done" /\ pack.c = 262143 /\ pack.read_fixed = 262143
    /\ pack.fixed[6] = 127 /\ pack.fixed[7] = 255 /\ pack.fixed[8] = 191

\* Both execution contexts returned, and neither call started while the other
\* was under way: each body ran as one critical section.
C14_Serial == Len(out) = 2 /\ ~overlap

C15_SingleRequest ==
    outcome # "none" =>
        /\ Len(requests) = 1
        /\ requests[1] = IF Gt64(now, old_timestamp)
                         THEN [from |-> 6, len |-> 10]
                         ELSE [from |-> 9, len |-> 7]
        /\ ~entropy.ok => (outcome = "error" /\ ret = NoUuid /\ last = prev)
        /\ entropy.ok => (outcome = "ok" /\ ret = last)

\* C15 witness: a counter-increment call whose single request for 7 bytes failed.
C15_Witness ==
    /\ outcome = "error" /\ branch = "increment"
    /\ requests = <<[from |-> 9, len |-> 7]>>
    /\ ret = NoUuid

\* The 64-bit tms the latest call wrote into the time part.
C16_Tms == IF branch = "advance" THEN now ELSE C3_Expected

\* A timestamp field read as a 64-bit number.
C16_Decoded(id) == <<0, 0>> \o TimeField(id)

\* C16: bytes 0-5 of every returned identifier hold the low 48 bits of tms, most
\* significant byte first; for tms < 2^48 the decoded timestamp equals tms, for
\* tms >= 2^48 it is smaller than tms, and when previous_timestamp passes from
\* 2^48 - 1 to 2^48 (by clock or by overflow increment) the field of the
\* identifier is smaller than the field of the one before.
C16_TimestampEncoding ==
    Returned =>
        /\ TimeField(last) = Low48(C16_Tms)
        /\ Below48(C16_Tms) => C16_Decoded(last) = C16_Tms
        /\ ~Below48(C16_Tms) => Gt64(C16_Tms, C16_Decoded(last))
        /\ (/\ prev # NoUuid /\ C16_Decoded(prev) = old_timestamp
            /\ old_timestamp = <<0, 0, 255, 255, 255, 255, 255, 255>>
            /\ previous_timestamp = <<0, 1, 0, 0, 0, 0, 0, 0>>)
           => LtField(TimeField(last), TimeField(prev))

\* C16 witness: a counter overflow took previous_timestamp from 2^48 - 1 to
\* 2^48 and the identifier carries timestamp 0.
C16_Witness ==
    /\ Returned /\ branch = "increment" /\ prev # NoUuid
    /\ old_timestamp = <<0, 0, 255, 255, 255, 255, 255, 255>>
    /\ previous_timestamp = <<0, 1, 0, 0, 0, 0, 0, 0>>
    /\ TimeField(last) = <<0, 0, 0, 0, 0, 0>>

\* Two identifiers differ in their (timestamp, counter) pair.
C17_PairsDiffer(a, b) ==
    TimeField(a) # TimeField(b) \/ CounterField(a) # CounterField(b)

C17_PairGrows(a, b) ==
    \/ LtField(TimeField(a), TimeField(b))
    \/ TimeField(a) = TimeField(b) /\ CounterField(a) < CounterField(b)

C18_StateMirrorsOutput ==
    Returned =>
        /\ TimeField(last) = Low48(previous_timestamp)
        /\ CounterField(last) = sequence_counter

\* C18 witness: a seeded counter, read from random bytes, is the one the
\* identifier carries after the fix-up.
C18_Witness ==
    /\ Returned /\ branch = "advance" /\ sequence_counter = 127
    /\ CounterField(last) = 127 /\ last[6] = 112 /\ last[8] = 191

\* C19: previous_timestamp never decreases across a call, successful or failed;
\* after a successful call it is not below the clock reading of that call, and
\* it is above it only when the call kept the stored timestamp (set by an
\* earlier call) or incremented it on counter overflow.
C19_LogicalClock ==
    /\ ~Gt64(old_timestamp, previous_timestamp)
    /\ Returned => ~Gt64(now, previous_timestamp)
    /\ (Returned /\ Gt64(previous_timestamp, now)) =>
          /\ branch = "increment"
          /\ \/ previous_timestamp = old_timestamp
             \/ old_counter = 262143 /\ previous_timestamp = Inc64(old_timestamp)

\* C19 witness: after a counter overflow under an unchanged clock the stored
\* timestamp is one ahead of the clock.
C19_Witness ==
    /\ Returned /\ now = old_timestamp /\ old_counter = 262143
    /\ previous_timestamp = Inc64(now)
    /\ Gt64(previous_timestamp, now)

====
